---- MODULE Spec2Model ----
(***************************************************************************)
(* Model of src/main.py: the resilient fetcher (fetch_with_retries), the   *)
(* classification done by the /movies handler (get_movies), the upstream   *)
(* query it builds and the normalizer (simplify).                          *)
(*                                                                         *)
(* The handlers are asyncio coroutines: a coroutine runs without           *)
(* interruption between two awaits.  The awaits of a request are           *)
(* client.get (line 67) and asyncio.sleep (lines 69, 75), so every action  *)
(* below is the code executed from one suspension point to the next.       *)
(*                                                                         *)
(* Time is counted in tenths of a time unit: backoff 0.6 is 6.             *)
(***************************************************************************)
EXTENDS Integers, Sequences, FiniteSets, TLC

VARIABLES
    pc,         \* r -> "idle" | "get" | "sleep" | "done"
    caller,     \* r -> "get_movies" | "direct" (fetch_with_retries called on its own)
    attempts,   \* r -> the attempts argument of fetch_with_retries
    idx,        \* r -> number of loop iterations begun (the current attempt number)
    backoff,    \* r -> local backoff, in tenths
    last_exc,   \* r -> 0 for None, else the attempt whose RequestError is held
    inflight,   \* r -> attempts whose client.get has not resolved yet
    pool,       \* client -> connections of that client's pool carrying a call
    trace,      \* r -> outcomes of the resolved attempts, in order (history)
    waits,      \* r -> durations of the completed asyncio.sleep calls (history)
    fetched,    \* r -> how fetch_with_retries ended
    out,        \* r -> how get_movies ended
    movie,      \* the raw record simplify is called on
    item,       \* what simplify made of it
    mq,         \* the parameters get_movies is called with
    params      \* the upstream query built from them

\* the variables of the two pure computations
pure == <<movie, item, mq, params>>

vars == <<pc, caller, attempts, idx, backoff, last_exc, inflight, pool,
          trace, waits, fetched, out, movie, item, mq, params>>

----------------------------------------------------------------------------
(* Bounds and program constants *)

MaxAttempts == 3

MaxGenres == 3

MaxPage == 2

DefaultAttempts == 3

BaseBackoff == 6

max_connections == 20

----------------------------------------------------------------------------
(* The upstream, as seen through client.get *)

\* terminal status codes client.get can hand back (redirects with a Location
\* header are followed inside client.get and never show up here)
Statuses == {200, 204, 300, 304, 400, 401, 404, 429, 499, 500, 503}

Absent == <<"<absent>">>

\* a content-type header value is a sequence of tokens; `in` on strings is
\* substring search, here: the token occurs in the sequence
ContentTypes == {Absent, <<>>, <<"application/json">>,
                 <<"application/json", "charset=utf-8">>, <<"text/html">>}

\* what resp.json() meets: a JSON object (with well-formed docs, with a docs
\* entry that has a mistyped field, or without docs), another JSON value, or
\* no JSON
Bodies == {"object", "object_mistyped", "object_no_docs", "nonobject", "invalid"}

Exc == [kind |-> "exc", status |-> 0, ct |-> Absent, body |-> "invalid"]

Responses == [kind : {"resp"}, status : Statuses, ct : ContentTypes, body : Bodies]

Outcomes == {Exc} \cup Responses

\* what the history keeps of an outcome: a transport failure, or the status of
\* the response (the rest of a retried response is dropped with it, line 71)
Seen(o) == [kind |-> o.kind, status |-> o.status]

----------------------------------------------------------------------------
(* Results *)

NoResult == [kind |-> "none", status |-> 0, site |-> "none"]

Raised(st, where) == [kind |-> "HTTPException", status |-> st, site |-> where]

NotFetched == [kind |-> "none", status |-> 0, exc |-> 0, ct |-> Absent, body |-> "invalid"]

FetchedResp(o) == [kind |-> "response", status |-> o.status, exc |-> 0,
                   ct |-> o.ct, body |-> o.body]

FetchedRequestError(k) == [kind |-> "RequestError", status |-> 0, exc |-> k,
                           ct |-> Absent, body |-> "invalid"]

FetchedHTTPException == [kind |-> "HTTPException", status |-> 502, exc |-> 0,
                         ct |-> Absent, body |-> "invalid"]

PagedResult(st) == [kind |-> "PagedResult", status |-> st, site |-> "return"]

Escaped(what) == [kind |-> what, status |-> 0, site |-> "escaped"]

----------------------------------------------------------------------------
(* fetch_with_retries, lines 51-80 *)

\* the threshold one class too low: client errors are retried too
RetryableFrom400(status) == status >= 400

\* line 68: a response with this status is retried
Retryable(status) == status >= 500

\* the delay is never doubled
NextBackoffConstant(b) == b

\* lines 70 and 76: backoff *= 2
NextBackoff(b) == b * 2

\* the loop stops one iteration early
LoopContinuesShort(i, n) == i + 1 < n

\* the loop runs one iteration too many
LoopContinuesLong(i, n) == i <= n

\* line 65: for _ in range(attempts), after i iterations have begun
LoopContinues(i, n) == i < n

\* lines 58-64: every invocation builds its own AsyncClient, so the pool a
\* request draws from is the pool of the client it has just constructed
ClientOf(r) == r

\* line 55: a pool hands out a connection while it holds fewer than
\* max_connections of them
CanAcquire(c) == pool[c] < max_connections

\* the call is started but not awaited
NotAwaitedGet(S, k) == S

\* line 67: `await client.get` - the coroutine resumes when call k has
\* resolved, and call k is then no longer outstanding
AwaitedGet(S, k) == S \ {k}

\* the held transport error is forgotten once the loop has run out
AfterLoopForgetful(le) == FetchedHTTPException

\* lines 78-80: what leaves the function once the loop has run out
AfterLoop(le) == IF le # 0 THEN FetchedRequestError(le) ELSE FetchedHTTPException

----------------------------------------------------------------------------
(* JSON values as Python sees them *)

\* a value is tagged with its Python type; "absent" is a key that is missing
\* from its dict.  Numbers are integers; a rating value counts hundredths.
AbsentV == [t |-> "absent", v |-> 0]

Null == [t |-> "null", v |-> 0]

Str(x) == [t |-> "str", v |-> x]

Num(n) == [t |-> "num", v |-> n]

List(q) == [t |-> "list", v |-> q]

\* a dict is a record of values; a key it does not have maps to AbsentV
Dict(d) == [t |-> "dict", v |-> d]

\* the outcome of an expression that raises (AttributeError, TypeError)
RaisedV == [t |-> "raised", v |-> 0]

\* bool(x): None, "", 0, [] and {} are falsy
Truthy(x) ==
    CASE x.t = "null" -> FALSE
      [] x.t = "absent" -> FALSE
      [] x.t = "str" -> x.v # ""
      [] x.t = "num" -> x.v # 0
      [] x.t = "list" -> x.v # <<>>
      [] x.t = "dict" -> \E k \in DOMAIN x.v : x.v[k].t # "absent"
      [] OTHER -> TRUE

\* x or y
Or(x, y) == IF Truthy(x) THEN x ELSE y

\* d.get(k) on a dict given by its record: None when the key is missing
Get(d, k) == IF k \in DOMAIN d /\ d[k].t # "absent" THEN d[k] ELSE Null

\* x.get(k) on any value: only a dict has the method
ValueGet(x, k) == IF x.t = "dict" THEN Get(x.v, k) ELSE RaisedV

\* (x or {}).get(k): a falsy x is replaced by the empty dict
OrEmptyGet(x, k) == IF Truthy(x) THEN ValueGet(x, k) ELSE Null

\* a truthiness test in place of the type test: 0 is passed over
IsNonZeroNumber(x) == x.t = "num" /\ x.v # 0

\* isinstance(val, (int, float))
IsNumber(x) == x.t = "num"

\* round(float(val), 1): hundredths to the nearest tenth
Round1(h) == (h + 5) \div 10

----------------------------------------------------------------------------
(* simplify, lines 83-120 *)

Placeholder == Str("<untitled>")

RatingKeys == <<"kp", "imdb", "filmCritics", "await">>

\* lines 86-92: the first key of RatingKeys, from position i on, whose value
\* is a number
RECURSIVE RatingFrom(_, _)
RatingFrom(block, i) ==
    IF i > Len(RatingKeys) THEN Null
    ELSE LET val == Get(block, RatingKeys[i])
         IN IF IsNumber(val) THEN Num(Round1(val.v))
            ELSE RatingFrom(block, i + 1)

\* lines 86-92
RatingOf(m) ==
    LET rating_block == Get(m, "rating")
    IN IF ~Truthy(rating_block) THEN Null
       ELSE IF rating_block.t # "dict" THEN RaisedV
       ELSE RatingFrom(rating_block.v, 1)

\* the names come out in reverse order
RECURSIVE GenreNamesReversed(_)
GenreNamesReversed(q) ==
    IF q = <<>> THEN List(<<>>)
    ELSE LET nm == ValueGet(Head(q), "name")
             rest == GenreNamesReversed(Tail(q))
         IN IF nm.t = "raised" \/ rest.t = "raised" THEN RaisedV
            ELSE IF Truthy(nm) THEN List(rest.v \o <<nm>>)
            ELSE rest

\* line 96, the comprehension over a list: g.get("name") for the entries
\* whose g.get("name") is truthy; RaisedV as soon as an entry has no get
RECURSIVE GenreNames(_)
GenreNames(q) ==
    IF q = <<>> THEN List(<<>>)
    ELSE LET nm == ValueGet(Head(q), "name")
             rest == GenreNames(Tail(q))
         IN IF nm.t = "raised" \/ rest.t = "raised" THEN RaisedV
            ELSE IF Truthy(nm) THEN List(<<nm>> \o rest.v)
            ELSE rest

\* line 96: a falsy genres gives []; a non-empty string yields characters
\* and a number is not iterable, both raise
GenresOf(m) ==
    LET g == Get(m, "genres")
    IN IF ~Truthy(g) THEN List(<<>>)
       ELSE IF g.t # "list" THEN RaisedV
       ELSE GenreNames(g.v)

\* lines 103 and 105: the f-string with the path segment and the id
CatalogUrl(segment, kp_id) == [t |-> "url", v |-> <<segment, kp_id>>]

\* the type is not looked at: every record gets the film segment
KpUrlOfFilmOnly(m) ==
    IF Truthy(Get(m, "id")) THEN CatalogUrl("film", Get(m, "id")) ELSE Null

\* lines 99-105
KpUrlOf(m) ==
    LET kp_id == Get(m, "id")
        mtype == Get(m, "type")
    IN IF mtype.t = "str" /\ mtype.v = "tv-series"
       THEN (IF Truthy(kp_id) THEN CatalogUrl("series", kp_id) ELSE Null)
       ELSE (IF Truthy(kp_id) THEN CatalogUrl("film", kp_id) ELSE Null)

\* lines 108-109
UrlOf(m) ==
    LET kp_hd == OrEmptyGet(Get(m, "externalId"), "kpHD")
    IN IF kp_hd.t = "raised" THEN RaisedV ELSE Or(KpUrlOf(m), kp_hd)

\* the alternative name is tried first
NameOfAlternativeFirst(m) ==
    Or(Or(Get(m, "alternativeName"), Get(m, "name")), Placeholder)

\* line 84
NameOf(m) == Or(Or(Get(m, "name"), Get(m, "alternativeName")), Placeholder)

\* line 85
PosterOf(m) == OrEmptyGet(Get(m, "poster"), "url")

\* line 94: the last operand of `or` is the result when the first is falsy
DescriptionOf(m) ==
    IF Truthy(Get(m, "shortDescription")) THEN Get(m, "shortDescription")
    ELSE Get(m, "description")

\* what simplify has not produced (yet, or because it raised)
NoItem(state) ==
    [st |-> state, id |-> Null, name |-> Null, poster |-> Null, rating |-> Null,
     description |-> Null, year |-> Null, genres |-> Null, url |-> Null]

\* lines 83-120: simplify on the dict m
Simplify(m) ==
    IF "raised" \in {PosterOf(m).t, RatingOf(m).t, GenresOf(m).t, UrlOf(m).t}
    THEN NoItem("raised")
    ELSE [st |-> "returned",
          id |-> Get(m, "id"),
          name |-> NameOf(m),
          poster |-> PosterOf(m),
          rating |-> RatingOf(m),
          description |-> DescriptionOf(m),
          year |-> Get(m, "year"),
          genres |-> GenresOf(m),
          url |-> UrlOf(m)]

\* line 189: simplify(m) on an entry of docs; an entry that is not a dict
\* has no get
SimplifyEntry(e) == IF e.t = "dict" THEN Simplify(e.v) ELSE NoItem("raised")

----------------------------------------------------------------------------
(* The upstream query, lines 148-157 *)

\* lines 23-27
SELECT_FIELDS == <<"id", "type", "name", "alternativeName", "description",
                   "shortDescription", "year", "rating", "genres", "poster",
                   "externalId">>

\* str() of a float given in tenths: integer part, point, one decimal
FloatStr(tenths) == <<tenths \div 10, ".", tenths % 10>>

\* line 157: f"{min_rating}-10"
RatingRange(min_rating) == FloatStr(min_rating.v) \o <<"-10">>

Omitted == <<"<omitted>">>

\* the filter is sent for a minimum of 0 too
WantsRatingFilterFromZero(min_rating) == min_rating.t = "num" /\ min_rating.v >= 0

\* line 156: min_rating is not None and min_rating > 0
WantsRatingFilter(min_rating) == min_rating.t = "num" /\ min_rating.v > 0

NoParams(state) ==
    [st |-> state, page |-> 0, limit |-> 0, genres_name |-> "",
     selectFields |-> <<>>, sortField |-> "", sortType |-> "", rating_kp |-> Omitted]

\* lines 148-157: query_params for the call q
QueryParams(q) ==
    [st |-> "built",
     page |-> q.page,
     limit |-> q.limit,
     genres_name |-> q.genre,
     selectFields |-> SELECT_FIELDS,
     sortField |-> "rating.kp",
     sortType |-> "-1",
     rating_kp |-> IF WantsRatingFilter(q.min_rating)
                   THEN RatingRange(q.min_rating) ELSE Omitted]

NoQuery == [genre |-> "", min_rating |-> Null, page |-> 0, limit |-> 0]

\* the empty dict
NoMovie ==
    [k \in {"name", "alternativeName", "poster", "rating", "shortDescription",
            "description", "year", "genres", "id", "type", "externalId"}
       |-> AbsentV]

\* neither simplify nor the query construction is being followed
NoPureCall ==
    /\ movie = NoMovie
    /\ item = NoItem("idle")
    /\ mq = NoQuery
    /\ params = NoParams("idle")

\* a record with every field present and of the expected type
TypicalMovie ==
    [name |-> Str("A"), alternativeName |-> Str("B"),
     poster |-> Dict([url |-> Str("poster-url")]),
     rating |-> Dict([kp |-> Num(784), imdb |-> Num(649),
                      filmCritics |-> AbsentV, await |-> AbsentV]),
     shortDescription |-> Str("short"), description |-> Str("long"),
     year |-> Num(1999),
     genres |-> List(<<Dict([name |-> Str("g1")]), Dict([name |-> Str("g2")])>>),
     id |-> Num(123), type |-> Str("movie"),
     externalId |-> Dict([kpHD |-> Str("hd")])]

\* data.get("docs") for the bodies that are JSON objects
DocsOf(body) ==
    CASE body = "object" -> List(<<Dict(TypicalMovie), Dict(NoMovie)>>)
      [] body = "object_mistyped" ->
            List(<<Dict(TypicalMovie),
                   Dict([TypicalMovie EXCEPT !.poster = Str("poster-url")])>>)
      [] OTHER -> AbsentV

\* lines 188-189: docs = data.get("docs") or []; items = [simplify(m) for m in
\* docs] raises when docs is not a list or simplify raises on an entry
ItemsRaise(docs) ==
    IF ~Truthy(docs) THEN FALSE
    ELSE IF docs.t # "list" THEN TRUE
    ELSE \E i \in 1..Len(docs.v) : SimplifyEntry(docs.v[i]).st = "raised"

----------------------------------------------------------------------------
(* get_movies, lines 165-199 *)

\* line 179: resp.headers.get("content-type", "")
HeaderGet(ct) == IF ct = Absent THEN <<>> ELSE ct

\* the content-type check is skipped
ContainsAppJsonAlways(ct) == TRUE

\* line 180: "application/json" in ct
ContainsAppJson(ct) == \E j \in 1..Len(ct) : ct[j] = "application/json"

\* the generic rule for statuses >= 400 is tried before the 401 and 429 rules
ClassifyGenericFirst(resp) ==
    IF resp.status >= 400 THEN Raised(resp.status, "upstream")
    ELSE IF resp.status = 401 THEN Raised(500, "auth")
    ELSE IF resp.status = 429 THEN Raised(429, "rate")
    ELSE IF ~(\E j \in 1..Len(HeaderGet(resp.ct)) :
                  HeaderGet(resp.ct)[j] = "application/json")
         THEN Raised(502, "content-type")
    ELSE IF resp.body = "invalid" THEN Raised(502, "parse")
    ELSE IF resp.body = "nonobject" THEN Escaped("AttributeError")
    ELSE IF ItemsRaise(DocsOf(resp.body)) THEN Escaped("AttributeError")
    ELSE PagedResult(resp.status)

\* lines 172-199: classification of the response fetch_with_retries returned
Classify(resp) ==
    IF resp.status = 401 THEN Raised(500, "auth")
    ELSE IF resp.status = 429 THEN Raised(429, "rate")
    ELSE IF resp.status >= 400 THEN Raised(resp.status, "upstream")
    ELSE IF ~ContainsAppJson(HeaderGet(resp.ct)) THEN Raised(502, "content-type")
    ELSE IF resp.body = "invalid" THEN Raised(502, "parse")
    ELSE IF resp.body = "nonobject" THEN Escaped("AttributeError")
    ELSE IF ItemsRaise(DocsOf(resp.body)) THEN Escaped("AttributeError")
    ELSE PagedResult(resp.status)

\* lines 166-169: the except clause catches httpx.RequestError only; the
\* HTTPException of line 80 passes through unchanged
HandleFetchError(f) ==
    IF f.kind = "RequestError" THEN Raised(502, "network")
    ELSE Raised(f.status, "no-response")

\* lines 165-199: get_movies from the point where fetch_with_retries ends
GetMovies(f) == IF f.kind = "response" THEN Classify(f) ELSE HandleFetchError(f)

OutOf(r, f) == IF caller[r] = "get_movies" THEN GetMovies(f) ELSE NoResult

----------------------------------------------------------------------------
(* State machine *)

Reqs == DOMAIN pc

\* line 167: get_movies always passes attempts=3; fetch_with_retries called
\* on its own takes any budget
Calls == [caller : {"get_movies"}, attempts : {DefaultAttempts}]
             \cup [caller : {"direct"}, attempts : 0..MaxAttempts]

\* lines 52-53: the locals of an invocation that has not begun its loop
Fresh(R) ==
    /\ pc = [r \in R |-> "idle"]
    /\ idx = [r \in R |-> 0]
    /\ backoff = [r \in R |-> BaseBackoff]
    /\ last_exc = [r \in R |-> 0]
    /\ inflight = [r \in R |-> {}]
    /\ pool = [c \in R |-> 0]
    /\ trace = [r \in R |-> <<>>]
    /\ waits = [r \in R |-> <<>>]
    /\ fetched = [r \in R |-> NotFetched]
    /\ out = [r \in R |-> NoResult]

\* one request is followed from arrival to its result
Init ==
    /\ \E c \in Calls : /\ caller = [r \in {1} |-> c.caller]
                        /\ attempts = [r \in {1} |-> c.attempts]
    /\ Fresh({1})
    /\ NoPureCall

\* the function ends with f: the `async with` block is left and the result
\* travels up to get_movies when get_movies is the caller
Finish(r, f) ==
    /\ pc' = [pc EXCEPT ![r] = "done"]
    /\ fetched' = [fetched EXCEPT ![r] = f]
    /\ out' = [out EXCEPT ![r] = OutOf(r, f)]

\* line 67: the next iteration of the loop begins and calls client.get
Issue(r) ==
    /\ CanAcquire(ClientOf(r))
    /\ idx' = [idx EXCEPT ![r] = @ + 1]
    /\ inflight' = [inflight EXCEPT ![r] = @ \cup {idx[r] + 1}]
    /\ pool' = [pool EXCEPT ![ClientOf(r)] = @ + 1]
    /\ pc' = [pc EXCEPT ![r] = "get"]
    /\ UNCHANGED <<fetched, out>>

\* lines 148-167 and 52-67: the request arrives and runs to its first await
Start(r) ==
    /\ pc[r] = "idle"
    /\ IF LoopContinues(idx[r], attempts[r])
       THEN Issue(r)
       ELSE /\ Finish(r, AfterLoop(last_exc[r]))
            /\ UNCHANGED <<idx, inflight, pool>>
    /\ UNCHANGED <<caller, attempts, backoff, last_exc, trace, waits, pure>>

\* lines 67-75: client.get resolves with outcome o; the code runs to the
\* sleep, or to the return of line 72 and then through get_movies
Resolve(r, o) ==
    /\ pc[r] = "get"
    /\ inflight' = [inflight EXCEPT ![r] = AwaitedGet(@, idx[r])]
    /\ pool' = [pool EXCEPT ![ClientOf(r)] = @ - 1]
    /\ trace' = [trace EXCEPT ![r] = Append(@, Seen(o))]
    /\ IF o.kind = "exc"
       THEN /\ last_exc' = [last_exc EXCEPT ![r] = idx[r]]
            /\ pc' = [pc EXCEPT ![r] = "sleep"]
            /\ UNCHANGED <<fetched, out>>
       ELSE IF Retryable(o.status)
       THEN /\ pc' = [pc EXCEPT ![r] = "sleep"]
            /\ UNCHANGED <<last_exc, fetched, out>>
       ELSE /\ Finish(r, FetchedResp(o))
            /\ UNCHANGED last_exc
    /\ UNCHANGED <<caller, attempts, idx, backoff, waits, pure>>

\* lines 69-71 and 75-80: the sleep is over; backoff doubles and the loop
\* either begins its next iteration or runs out
Wake(r) ==
    /\ pc[r] = "sleep"
    /\ waits' = [waits EXCEPT ![r] = Append(@, backoff[r])]
    /\ backoff' = [backoff EXCEPT ![r] = NextBackoff(@)]
    /\ IF LoopContinues(idx[r], attempts[r])
       THEN Issue(r)
       ELSE /\ Finish(r, AfterLoop(last_exc[r]))
            /\ UNCHANGED <<idx, inflight, pool>>
    /\ UNCHANGED <<caller, attempts, last_exc, trace, pure>>

Next ==
    \/ \E r \in Reqs : Start(r)
    \/ \E r \in Reqs, o \in Outcomes : Resolve(r, o)
    \/ \E r \in Reqs : Wake(r)

Spec == Init /\ [][Next]_vars

\* every call resolves (a response, or at the latest the timeout of line 56
\* as a RequestError) and every sleep ends
FairSpec == Spec /\ WF_vars(Next)

----------------------------------------------------------------------------
(* A burst of requests: one more /movies request than a pool has connections *)

BurstRequests == 1..(max_connections + 1)

\* a well-formed 200 answer
Ok200 == [kind |-> "resp", status |-> 200, ct |-> <<"application/json">>,
          body |-> "object"]

BurstInit ==
    /\ caller = [r \in BurstRequests |-> "get_movies"]
    /\ attempts = [r \in BurstRequests |-> DefaultAttempts]
    /\ Fresh(BurstRequests)
    /\ NoPureCall

\* the requests are numbered in the order they arrive, and the upstream
\* answers them in that order
BurstNext ==
    \/ \E r \in Reqs : /\ IF r = 1 THEN TRUE ELSE pc[r - 1] # "idle"
                       /\ Start(r)
    \/ \E r \in Reqs : /\ IF r = 1 THEN TRUE ELSE pc[r - 1] = "done"
                       /\ Resolve(r, Ok200)

BurstSpec == BurstInit /\ [][BurstNext]_vars

\* connections carrying a call, over all the pools there are
RECURSIVE SumPool(_)
SumPool(C) ==
    IF C = {} THEN 0
    ELSE LET c == CHOOSE x \in C : TRUE IN pool[c] + SumPool(C \ {c})

OpenConnections == SumPool(DOMAIN pool)

----------------------------------------------------------------------------
(* simplify on its own: the raw records it is given *)

SeqsUpTo(S, n) == UNION {[1..k -> S] : k \in 0..n}

\* what a text field (name, description) can hold, s being its text
TextValues(s) == {AbsentV, Null, Str(""), Str(s), Num(7)}

PosterValues ==
    {AbsentV, Null, Dict([url |-> AbsentV]), Dict([url |-> Null]),
     Dict([url |-> Str("poster-url")]), Str(""), Str("poster-url"),
     List(<<Str("poster-url")>>), Num(1)}

YearValues == {AbsentV, Null, Num(1999), Str("1999")}

\* a rating value, in hundredths: 0, 7.84, 11.5 and -1.2 among them
Scores == {AbsentV, Null, Str("7.8"), Num(0), Num(784), Num(1150), Num(-120)}

MinorScores == {AbsentV, Str("n/a"), Num(649)}

RatingValues ==
    {AbsentV, Null, Str(""), Str("7.8"), Num(8), List(<<>>)}
        \cup {Dict(d) : d \in [kp : Scores, imdb : Scores,
                               filmCritics : MinorScores, await : MinorScores]}

GenreEntries ==
    {Dict([name |-> Str("g1")]), Dict([name |-> Str("g2")]),
     Dict([name |-> AbsentV]), Dict([name |-> Null]), Dict([name |-> Str("")]),
     Null, Str("g1")}

GenresValues ==
    {AbsentV, Null, Str("g1"), Num(5)}
        \cup {List(q) : q \in SeqsUpTo(GenreEntries, MaxGenres)}

IdValues == {AbsentV, Null, Num(0), Num(55), Num(123), Str("tt1")}

TypeValues == {AbsentV, Null, Str("tv-series"), Str("movie"), Str("cartoon"), Num(1)}

ExternalIdValues ==
    {AbsentV, Null, Dict([kpHD |-> AbsentV]), Dict([kpHD |-> Null]),
     Dict([kpHD |-> Str("hd")]), Dict([kpHD |-> Num(9)]), Str("hd"),
     List(<<Str("hd")>>)}

\* the records tried: around a full record and around the empty one, the
\* fields one rule of simplify reads take every combination of their values
RecordsAround(base) ==
    {[base EXCEPT !.name = a, !.alternativeName = b]
        : a \in TextValues("A"), b \in TextValues("B")}
    \cup {[base EXCEPT !.shortDescription = a, !.description = b]
        : a \in TextValues("short"), b \in TextValues("long")}
    \cup {[base EXCEPT !.poster = a, !.year = b]
        : a \in PosterValues, b \in YearValues}
    \cup {[base EXCEPT !.rating = a] : a \in RatingValues}
    \cup {[base EXCEPT !.genres = a] : a \in GenresValues}
    \cup {[base EXCEPT !.id = a, !.type = b, !.externalId = c]
        : a \in IdValues, b \in TypeValues, c \in ExternalIdValues}

RawRecords == RecordsAround(TypicalMovie) \cup RecordsAround(NoMovie)

\* no request is being handled
NoRequests ==
    /\ caller = [r \in {} |-> "direct"]
    /\ attempts = [r \in {} |-> 0]
    /\ Fresh({})

SimplifyInit ==
    /\ NoRequests
    /\ movie \in RawRecords
    /\ item = NoItem("pending")
    /\ mq = NoQuery
    /\ params = NoParams("idle")

\* lines 83-120: simplify(movie) is called and returns or raises
CallSimplify ==
    /\ item.st = "pending"
    /\ item' = Simplify(movie)
    /\ UNCHANGED <<pc, caller, attempts, idx, backoff, last_exc, inflight, pool,
                   trace, waits, fetched, out, movie, mq, params>>

SimplifySpec == SimplifyInit /\ [][CallSimplify]_vars

----------------------------------------------------------------------------
(* The query construction on its own *)

\* lines 143-146: what the route lets through; min_rating counts tenths
Queries ==
    [genre : {"comedy", "drama"},
     min_rating : {Null} \cup {Num(t) : t \in 0..100},
     page : 1..MaxPage,
     limit : {1, 20, 50}]

QueryInit ==
    /\ NoRequests
    /\ movie = NoMovie
    /\ item = NoItem("idle")
    /\ mq \in Queries
    /\ params = NoParams("pending")

\* lines 148-157: get_movies builds query_params
BuildQuery ==
    /\ params.st = "pending"
    /\ params' = QueryParams(mq)
    /\ UNCHANGED <<pc, caller, attempts, idx, backoff, last_exc, inflight, pool,
                   trace, waits, fetched, out, movie, item, mq>>

QuerySpec == QueryInit /\ [][BuildQuery]_vars

----------------------------------------------------------------------------
(* Vocabulary of the properties *)

RECURSIVE Pow2(_)
Pow2(n) == IF n = 0 THEN 1 ELSE 2 * Pow2(n - 1)

\* an attempt that failed: transport failure or a response with status >= 500
FailedAttempt(e) == e.kind = "exc" \/ (e.kind = "resp" /\ e.status >= 500)

\* an attempt that ended in a response with status below 500
Answered(e) == e.kind = "resp" /\ e.status < 500

\* upstream calls issued so far by request r
CallsMade(r) == idx[r]

\* a content type that announces JSON
IsJson(ct) == ct # Absent /\ Len(ct) > 0 /\ ct[1] = "application/json"

GotResponse(r) == pc[r] = "done" /\ fetched[r].kind = "response"

Handled(r) == caller[r] = "get_movies" /\ pc[r] = "done"

----------------------------------------------------------------------------
(* Properties *)

\* C1: when the first k attempts fail (transport failure or status >= 500)
\* and attempt k+1 answers with a status below 500, fetch_with_retries has
\* returned that response after exactly k+1 upstream calls and exactly k
\* completed waits, the i-th of which lasted BaseBackoff * 2^(i-1).
C1_RetryThenReturn ==
    \A r \in Reqs :
        \A k \in 0..(attempts[r] - 1) :
            ( /\ Len(trace[r]) >= k + 1
              /\ \A i \in 1..k : FailedAttempt(trace[r][i])
              /\ Answered(trace[r][k + 1]) )
            => /\ GotResponse(r)
               /\ fetched[r].status = trace[r][k + 1].status
               /\ CallsMade(r) = k + 1
               /\ Len(waits[r]) = k
               /\ \A i \in 1..k : waits[r][i] = BaseBackoff * Pow2(i - 1)

\* two 500s, then a 200: waits 0.6 and 1.2, and the 200 is returned
C1_Witness ==
    \E r \in Reqs :
        /\ GotResponse(r)
        /\ Len(trace[r]) = 3
        /\ trace[r][1] = [kind |-> "resp", status |-> 500]
        /\ trace[r][2] = [kind |-> "resp", status |-> 500]
        /\ trace[r][3].status = 200
        /\ fetched[r].status = 200
        /\ waits[r] = <<6, 12>>

\* C2: when every attempt ends in a transport failure, fetch_with_retries
\* makes exactly `attempts` upstream calls and then raises the transport
\* error; get_movies (budget 3) turns it into an error with status 502.
C2_GiveUpOnTransportFailure ==
    \A r \in Reqs :
        ( /\ pc[r] = "done"
          /\ trace[r] # <<>>
          /\ \A i \in 1..Len(trace[r]) : trace[r][i].kind = "exc" )
        => /\ CallsMade(r) = attempts[r]
           /\ Len(trace[r]) = attempts[r]
           /\ fetched[r].kind = "RequestError"
           /\ caller[r] = "get_movies"
                 => /\ CallsMade(r) = 3
                    /\ out[r] = Raised(502, "network")

C2_Witness ==
    \E r \in Reqs :
        /\ Handled(r)
        /\ Len(trace[r]) = 3
        /\ \A i \in 1..3 : trace[r][i].kind = "exc"
        /\ out[r].status = 502

\* C3: a response with status below 500 is terminal wherever it arrives:
\* it is the last outcome of the invocation, it is what the invocation
\* returned, and no wait and no upstream call follows it.
C3_Below500IsTerminal ==
    \A r \in Reqs :
        \A k \in 1..Len(trace[r]) :
            Answered(trace[r][k])
            => /\ k = Len(trace[r])
               /\ GotResponse(r)
               /\ fetched[r].status = trace[r][k].status
               /\ CallsMade(r) = k
               /\ Len(waits[r]) = k - 1

\* a 404 on the second attempt, after one failure
C3_Witness ==
    \E r \in Reqs :
        /\ GotResponse(r)
        /\ Len(trace[r]) = 2
        /\ FailedAttempt(trace[r][1])
        /\ trace[r][2].status = 404
        /\ Len(waits[r]) = 1

\* C4: when the budget is used up, no attempt was a transport failure and
\* every attempt answered with a status >= 500, the error the caller of
\* get_movies sees carries the status of the last upstream response.
C4_LastServerErrorStatusSurfaces ==
    \A r \in Reqs :
        ( /\ Handled(r)
          /\ Len(trace[r]) = attempts[r]
          /\ trace[r] # <<>>
          /\ \A i \in 1..Len(trace[r]) :
                 trace[r][i].kind = "resp" /\ trace[r][i].status >= 500 )
        => /\ out[r].kind = "HTTPException"
           /\ out[r].status = trace[r][Len(trace[r])].status

\* C5: for a terminal response with status s in [400,500) get_movies raises
\* one error whose status is 500 for s = 401, 429 for s = 429 and s
\* otherwise.
C5_ClientErrorStatus ==
    \A r \in Reqs :
        ( /\ Handled(r)
          /\ fetched[r].kind = "response"
          /\ fetched[r].status \in 400..499 )
        => /\ out[r].kind = "HTTPException"
           /\ out[r].status = IF fetched[r].status = 401 THEN 500
                              ELSE IF fetched[r].status = 429 THEN 429
                              ELSE fetched[r].status

C5_Witness ==
    \E r \in Reqs :
        /\ Handled(r)
        /\ fetched[r].kind = "response"
        /\ fetched[r].status = 401
        /\ out[r].status = 500

\* C6: for a terminal response with status below 400, a content type that
\* is not JSON gives error 502 raised by the content-type check whatever the
\* body is; a JSON content type with a body that does not parse gives error
\* 502 raised by the parse; a response with status >= 400 is classified by
\* its status whatever its content type and body are.
C6_ContentTypeThenParse ==
    \A r \in Reqs :
        (Handled(r) /\ fetched[r].kind = "response")
        => /\ (fetched[r].status < 400 /\ ~IsJson(fetched[r].ct))
                 => out[r] = Raised(502, "content-type")
           /\ ( /\ fetched[r].status < 400
                /\ IsJson(fetched[r].ct)
                /\ fetched[r].body = "invalid" )
                 => out[r] = Raised(502, "parse")
           /\ fetched[r].status >= 400
                 => /\ out[r].kind = "HTTPException"
                    /\ out[r].site \in {"auth", "rate", "upstream"}

\* a 200 whose content type is text/html and whose body is no JSON either
C6_Witness ==
    \E r \in Reqs :
        /\ Handled(r)
        /\ fetched[r].kind = "response"
        /\ fetched[r].status = 200
        /\ fetched[r].ct = <<"text/html">>
        /\ fetched[r].body = "invalid"
        /\ out[r] = Raised(502, "content-type")

\* C7: for every budget and every sequence of outcomes fetch_with_retries
\* makes at most `attempts` upstream calls and at most `attempts` waits, and
\* it ends (returns or raises).
C7_Terminates ==
    /\ [](\A r \in Reqs : /\ CallsMade(r) <= attempts[r]
                         /\ Len(waits[r]) <= attempts[r])
    /\ <>(\A r \in Reqs : pc[r] = "done" /\ fetched[r].kind # "none")

\* a give-up that used the whole budget
C7_Witness ==
    \E r \in Reqs :
        /\ pc[r] = "done"
        /\ attempts[r] = MaxAttempts
        /\ CallsMade(r) = attempts[r]
        /\ fetched[r].kind \in {"RequestError", "HTTPException"}

\* C8: within one request at most one upstream call is outstanding, and
\* while attempt k+1 is outstanding the k attempts before it have resolved
\* and the k waits after them have completed.
C8_SequentialAttempts ==
    \A r \in Reqs :
        /\ Cardinality(inflight[r]) <= 1
        /\ inflight[r] # {} <=> pc[r] = "get"
        /\ pc[r] = "get"
              => /\ inflight[r] = {idx[r]}
                 /\ Len(trace[r]) = idx[r] - 1
                 /\ Len(waits[r]) = idx[r] - 1

\* the second attempt is outstanding
C8_Witness ==
    \E r \in Reqs :
        /\ inflight[r] = {2}
        /\ Len(trace[r]) = 1
        /\ Len(waits[r]) = 1

\* C9: however many requests are being handled, the upstream connections
\* open at one time never exceed max_connections.
C9_ConnectionsBounded == OpenConnections <= max_connections

\* C10: a terminal response whose status is not in [200,300) makes
\* get_movies raise a classified error, never return a PagedResult.
C10_Non2xxIsAnError ==
    \A r \in Reqs :
        ( /\ Handled(r)
          /\ fetched[r].kind = "response"
          /\ fetched[r].status \notin 200..299 )
        => out[r].kind = "HTTPException"

\* the attempts of request r that ended in a transport failure
TransportFailures(r) == {i \in 1..Len(trace[r]) : trace[r][i].kind = "exc"}

\* request r gave up: the budget is used up and every attempt failed
GaveUp(r) ==
    /\ pc[r] = "done"
    /\ attempts[r] >= 1
    /\ Len(trace[r]) = attempts[r]
    /\ \A i \in 1..Len(trace[r]) : FailedAttempt(trace[r][i])

\* C19: when the budget is used up and at least one attempt was a transport
\* failure, fetch_with_retries raises the most recent transport error (502
\* "network" from get_movies), also when later attempts answered >= 500; and
\* an invocation whose last attempt answered below 500 returns that
\* response, whatever transport error it holds from earlier attempts.
C19_LastTransportErrorWins ==
    \A r \in Reqs :
        /\ (GaveUp(r) /\ TransportFailures(r) # {})
              => /\ fetched[r].kind = "RequestError"
                 /\ fetched[r].exc \in TransportFailures(r)
                 /\ \A i \in TransportFailures(r) : i <= fetched[r].exc
                 /\ caller[r] = "get_movies" => out[r] = Raised(502, "network")
        /\ ( /\ pc[r] = "done"
             /\ trace[r] # <<>>
             /\ Answered(trace[r][Len(trace[r])]) )
              => fetched[r].kind = "response"

\* a transport failure on the first attempt, then two answers >= 500
C19_Witness ==
    \E r \in Reqs :
        /\ Handled(r)
        /\ GaveUp(r)
        /\ Len(trace[r]) = 3
        /\ trace[r][1].kind = "exc"
        /\ trace[r][2].kind = "resp"
        /\ trace[r][3].kind = "resp"
        /\ fetched[r].exc = 1
        /\ out[r] = Raised(502, "network")

\* C20: a give-up after N failed attempts has performed exactly N-1 waits:
\* no wait follows the attempt that uses up the budget.
C20_NoWaitAfterLastAttempt ==
    \A r \in Reqs : GaveUp(r) => Len(waits[r]) = attempts[r] - 1

\* C11: get_movies ends in one of two ways: it returns a PagedResult or it
\* raises a status-coded error; no other exception reaches the caller.
C11_OnlyClassifiedOutcomes ==
    \A r \in Reqs : Handled(r) => out[r].kind \in {"PagedResult", "HTTPException"}

\* C12: simplify never raises, whatever is absent, null or mistyped in the
\* raw record: it always returns a NormalizedMovie.
C12_SimplifyNeverRaises == item.st # "raised"

\* C13: the query holds rating.kp exactly when min_rating > 0, and then its
\* value is min_rating followed by "-10"; page, limit, the genre filter, the
\* field selection and the descending sort on rating.kp are in every query.
C13_RatingRangeOnlyAboveZero ==
    params.st = "built"
    => /\ params.rating_kp # Omitted
             <=> (mq.min_rating.t = "num" /\ mq.min_rating.v > 0)
       /\ params.rating_kp # Omitted
             => params.rating_kp = <<mq.min_rating.v \div 10, ".",
                                     mq.min_rating.v % 10, "-10">>
       /\ params.page = mq.page
       /\ params.limit = mq.limit
       /\ params.genres_name = mq.genre
       /\ params.selectFields = SELECT_FIELDS
       /\ params.sortField = "rating.kp"
       /\ params.sortType = "-1"

\* min_rating 7.5 gives "7.5-10"
C13_Witness ==
    /\ params.st = "built"
    /\ mq.min_rating = Num(75)
    /\ params.rating_kp = <<7, ".", 5, "-10">>

\* min_rating 0 gives no rating.kp
C13_WitnessZero ==
    /\ params.st = "built"
    /\ mq.min_rating = Num(0)
    /\ params.rating_kp = Omitted

----------------------------------------------------------------------------
(* Vocabulary of the properties of simplify *)

Returned == item.st = "returned"

Missing(x) == x.t \in {"absent", "null"}

NonEmptyText(x) == x.t = "str" /\ x.v # ""

NoText(x) == Missing(x) \/ (x.t = "str" /\ x.v = "")

\* the order the rating keys are tried in
ClaimedOrder == <<"kp", "imdb", "filmCritics", "await">>

\* positions of ClaimedOrder whose value in the rating dict d is a number
NumericAt(d) == {i \in 1..4 : d[ClaimedOrder[i]].t = "num"}

FirstOf(S) == CHOOSE i \in S : \A j \in S : i <= j

C14_WitnessLaterKey ==
    /\ Returned
    /\ movie.rating.t = "dict"
    /\ movie.rating.v.kp = Str("7.8")
    /\ movie.rating.v.imdb = AbsentV
    /\ movie.rating.v.filmCritics = Num(649)
    /\ item.rating = Num(65)

\* C15: the rating simplify returns, when there is one, lies in [0,10]
\* (0..100 tenths), also for upstream values outside that range.
C15_RatingInRange ==
    (Returned /\ item.rating.t = "num") => (item.rating.v >= 0 /\ item.rating.v <= 100)

\* an id that is there: a non-zero number or a non-empty string
HasId(m) == (m.id.t = "num" /\ m.id.v # 0) \/ NonEmptyText(m.id)

IsSeries(m) == m.type.t = "str" /\ m.type.v = "tv-series"

\* the alternate identifier of the record, Null when there is none
AlternateId(m) ==
    IF m.externalId.t = "dict" /\ ~Missing(m.externalId.v.kpHD)
    THEN m.externalId.v.kpHD ELSE Null

C16_WitnessAlternate ==
    /\ Returned
    /\ movie.id = Null
    /\ movie.type = Str("tv-series")
    /\ movie.externalId = Dict([kpHD |-> Str("hd")])
    /\ item.url = Str("hd")

\* C17: the name simplify returns is never absent or empty: it is the
\* primary name when that is a non-empty text, else the alternative name
\* when that is a non-empty text, else the placeholder.
C17_NameFallback ==
    Returned
    => /\ ~Missing(item.name)
       /\ ~(item.name.t = "str" /\ item.name.v = "")
       /\ NonEmptyText(movie.name) => item.name = movie.name
       /\ (NoText(movie.name) /\ NonEmptyText(movie.alternativeName))
             => item.name = movie.alternativeName
       /\ (NoText(movie.name) /\ NoText(movie.alternativeName))
             => item.name = Placeholder

\* both names are there: the primary one is kept
C17_Witness ==
    /\ Returned
    /\ movie.name = Str("A")
    /\ movie.alternativeName = Str("B")
    /\ item.name = Str("A")

\* only the alternative name is there
C17_WitnessAlternative ==
    /\ Returned
    /\ movie.name = Null
    /\ movie.alternativeName = Str("B")
    /\ item.name = Str("B")

HasName(g) == g.t = "dict" /\ NonEmptyText(g.v.name)

\* the names of the entries of q that have one, in the order of q
RECURSIVE NamesIn(_)
NamesIn(q) ==
    IF q = <<>> THEN <<>>
    ELSE IF HasName(q[1]) THEN <<q[1].v.name>> \o NamesIn(Tail(q))
    ELSE NamesIn(Tail(q))

\* C18: genres is the list of the names of the upstream entries that have a
\* name, in upstream order, nothing added, removed or merged; it is empty
\* when the upstream list is absent or null.
C18_GenresInOrder ==
    Returned
    => /\ item.genres.t = "list"
       /\ Missing(movie.genres) => item.genres.v = <<>>
       /\ movie.genres.t = "list" => item.genres.v = NamesIn(movie.genres.v)

\* g2, an entry without a name, g1: the result is g2, g1
C18_Witness ==
    /\ Returned
    /\ movie.genres.t = "list"
    /\ Len(movie.genres.v) = 3
    /\ movie.genres.v[1] = Dict([name |-> Str("g2")])
    /\ movie.genres.v[2] = Dict([name |-> Null])
    /\ movie.genres.v[3] = Dict([name |-> Str("g1")])
    /\ item.genres.v = <<Str("g2"), Str("g1")>>

====
